---- MODULE Spec2Model ----
(***************************************************************************)
(* State-machine model of the AI Demo Builder front end: the wizard of     *)
(* App.jsx (page load, session resume, step changes), the Step 1 submit    *)
(* handler, the REST client of services/api.js, the Step 2 upload          *)
(* confirmation polling and the Step 3 status polling.                     *)
(*                                                                         *)
(* A JavaScript value that may be undefined/null is an "option": the empty *)
(* sequence << >> when it is absent, the one-element sequence <<v>> when   *)
(* it is present.  Session ids are strings, with Null standing for null.   *)
(***************************************************************************)
EXTENDS Integers, Sequences, FiniteSets, TLC

VARIABLES
    \* ---- services/api.js module state
    env,              \* import.meta.env: [VITE_API_URL, VITE_API_BASE_URL]
    baseURL,          \* apiClient.defaults.baseURL
    \* ---- App.jsx
    urlSessionId,     \* ?session_id= of window.location.search
    storedSessionId,  \* localStorage['currentSessionId']
    step, sessionId, githubUrl, suggestions, loading,
    resumePc,         \* "boot" | "none" | "await" | "done"
    resumeId,         \* argument sessionIdToResume
    resumeStatus,     \* local `status` of resumeSession (option)
    resumeFailed,     \* the catch block of resumeSession ran
    \* ---- Step1GitHubInput.jsx
    s1Pc,             \* "idle" | "awaitAnalyze" | "awaitSuggestions"
    s1Url,            \* the component's githubUrl input
    s1Error,          \* the component's error message
    analysisResponse, \* local of handleSubmit (option)
    analysisData,     \* argument handleSubmit gave getSuggestions (option)
    \* ---- api.pollSessionStatus
    pPc,              \* "idle" | "await" | "sleep" | "returned" | "threw"
    pMaxAttempts, pOnProgress, pAttempt,
    pStatus,          \* local `status` of the loop body (option)
    pRequests,        \* status requests issued by this call
    pResponses,       \* status requests that returned successfully
    pProgressCalls,   \* calls of onProgress
    pError,           \* message of the error thrown
    \* ---- Step3FinalVideo (src/unnamed/part_004)
    s3Mounted, s3Status, s3Error, pollingCount,
    s3Interval,       \* the current effect's setInterval is still set
    s3InFlight,       \* outstanding pollStatus calls: captured pollingCount
    s3Issued,         \* status requests started since mount
    s3TerminalSeen,   \* some poll returned 'complete' or a failed status
    s3Generating,     \* outstanding POST /generate requests
    \* ---- Step2SuggestionsWithUpload.uploadVideo (src/unnamed/part_002)
    uPc,              \* "idle" | "awaitUrl" | "awaitPut" | "done"
    uSuggestionId, uploadedVideos, uploading, uErrors,
    pollCount,        \* closure variable of the upload's polling
    pollInterval,     \* that polling's setInterval is still set
    pollInFlight,     \* interval callbacks awaiting pollStatus()
    pollIssued,       \* status requests this polling has started
    backendStatus, allUploaded,
    \* ---- force-reset-everything.sh
    rPc,              \* position of the script
    rLine,            \* the text typed at the confirmation prompt
    confirm,          \* $confirm
    rStep,            \* index of the next delete section
    awsDeleted,       \* AWS services a delete command was issued to
    localRemoved,     \* local paths given to rm
    rErrors,          \* $errors
    rExit,            \* exit status of the script (option)
    \* ---- Step2SuggestionsWithUpload, every upload (src/unnamed/part_002)
    uTasks,           \* per suggestion: position of its upload and the
                      \* uploadedVideos its handlers closed over
    checkPc,          \* checkExistingUploads: "await" | "served" | "done"
    checkVideos,      \* `videos` of the response on its way (option)
    backendUploaded,  \* suggestions whose video the bucket holds
    completedUploads, \* suggestions whose upload completed since the mount
    pollIntervals,    \* confirmation intervals set since the mount
    proceedTimer      \* the 3 s auto-proceed timeout is pending

appVars == <<urlSessionId, storedSessionId, step, sessionId,
             githubUrl, suggestions, loading, resumePc, resumeId,
             resumeStatus, resumeFailed, s1Pc, s1Url, s1Error,
             analysisResponse, analysisData>>
pollVars == <<env, baseURL, pPc, pMaxAttempts, pOnProgress, pAttempt, pStatus, pRequests,
              pResponses, pProgressCalls, pError>>
s3Vars == <<s3Mounted, s3Status, s3Error, pollingCount, s3Interval,
            s3InFlight, s3Issued, s3TerminalSeen, s3Generating>>
s2Vars == <<uPc, uSuggestionId, uploadedVideos, uploading, uErrors, pollCount,
            pollInterval, pollInFlight, pollIssued, backendStatus, allUploaded>>
resetVars == <<rPc, rLine, confirm, rStep, awsDeleted, localRemoved, rErrors, rExit>>
step2Vars == <<uTasks, checkPc, checkVideos, backendUploaded, completedUploads,
               pollIntervals, proceedTimer>>
vars == <<appVars, pollVars, s3Vars, s2Vars, resetVars, step2Vars>>

Null == "null"
Undefined == "undefined"
None == << >>
Some(v) == <<v>>

(***************************************************************************)
(* Bounds of the model.                                                    *)
(***************************************************************************)
MaxSuggestions == 2
\* The largest maxAttempts a caller of pollSessionStatus passes explicitly.
MaxAttemptsOption == 3
\* Step 3: status requests outstanding at once, and requests per mount.
MaxInFlight3 == 2
MaxIssued3 == 6
\* Step 3 followed past its 60 attempts: one request outstanding at a time.
LongInFlight3 == 1
LongIssued3 == 62
\* Step 3: POST /generate requests outstanding at once.
MaxGenerating == 1
\* Step 2: confirmation requests outstanding at once, and per upload.
MaxPollInFlight == 2
MaxPollIssued == 18

(***************************************************************************)
(* services/api.js: the axios client.                                      *)
(***************************************************************************)
LocalhostDefault == "http://localhost:3001"
EnvValues == {Undefined, "", "https://a.example/prod", "https://b.example/prod"}
Envs == [VITE_API_URL : EnvValues, VITE_API_BASE_URL : EnvValues]

\* JavaScript truthiness of a string-or-undefined value.
Truthy(v) == v \notin {Undefined, ""}

API_BASE_URL(e) ==
    IF Truthy(e.VITE_API_URL) THEN e.VITE_API_URL ELSE LocalhostDefault

\* Messages the response interceptor rejects with.
ApiErrors == {"Request timeout - Lambda may be cold starting",
              "Network Error: Cannot reach the API server. Check your API URL configuration.",
              "Internal server error"}

\* A Lambda response as axios delivers it: the payload flat, under an object
\* body, under a JSON string body, or under a string body that is no JSON.
Wraps == {"flat", "bodyObject", "bodyString", "bodyBadString"}

\* The response interceptor: a string body that parses is replaced by the
\* parsed object, one that does not parse is left as it is.
Interceptor(resp) ==
    IF resp.wrap = "bodyString"
    THEN [resp EXCEPT !.wrap = "bodyObject"]
    ELSE resp

\* `data` of analyzeGitHub / getSuggestions: response.body when it is an
\* object; the response itself when there is no body or when the body is a
\* string that does not parse (then none of the payload's fields is on it).
UnwrapBody(resp, empty) ==
    LET r == Interceptor(resp) IN
    CASE r.wrap = "flat" -> r.payload
      [] r.wrap = "bodyObject" -> r.payload
      [] OTHER -> empty

\* ---- /analyze
\* An analysis object: github_data present or not, and an optional nested
\* `analysis` field which is itself such an object.
Analysis(g, a) == [github_data |-> g, analysis |-> a]
NestedAnalyses == {Analysis(g, None) : g \in BOOLEAN}
AnalyzePayloads ==
    {Analysis(g, a) : g \in BOOLEAN, a \in {None} \cup {Some(n) : n \in NestedAnalyses}}
AnalyzeResponses == [wrap : Wraps, payload : AnalyzePayloads]

AnalyzeData(resp) == UnwrapBody(resp, Analysis(FALSE, None))

\* analyzeGitHub with its validation of the response left out.
AnalyzeValidNoCheck(data) == TRUE

\* analyzeGitHub's validation: `if (!data.github_data) throw`.
AnalyzeValid(data) == data.github_data

\* getSuggestions' validation of its argument:
\* `if (!analysisData || !analysisData.github_data) throw`.
SuggestionsInputValid(arg) == arg # None /\ Head(arg).github_data

\* ---- /suggestions
SessionIds == {"sA", "sB"}
\* The list <<1, ..., n>>: n suggestions by their sequence_number.
Numbered(n) == [i \in 1..n |-> i]
VideoLists == {Numbered(n) : n \in 0..MaxSuggestions}
SuggestionsPayloads ==
    [session_id : {None} \cup {Some(s) : s \in SessionIds},
     videos : {None} \cup {Some(v) : v \in VideoLists}]
SuggestionsResponses == [wrap : Wraps, payload : SuggestionsPayloads]

SuggestionsData(resp) == UnwrapBody(resp, [session_id |-> None, videos |-> None])

\* getSuggestions with its validation of the response left out.
SuggestionsValidNoCheck(data) == TRUE

\* `if (!data.session_id) throw`.
SuggestionsValid(data) == data.session_id # None

\* The object getSuggestions returns (the fields the wizard reads).
SuggestionsResult(data) ==
    [sessionId |-> IF data.session_id # None THEN Head(data.session_id) ELSE Undefined,
     suggestions |-> IF data.videos # None THEN Head(data.videos) ELSE <<>>]

\* ---- /status/{id}
\* The status strings of the session vocabulary that the front end and the
\* test scripts use, with the three that only pollSessionStatus tests for.
Statuses == {"ready", "uploading", "ready_for_processing", "queued",
             "processing", "stitching", "complete", "stitching_failed",
             "completed", "failed", "error"}

\* String.prototype.includes('failed') on the strings of Statuses.
IncludesFailed(s) == s \in {"stitching_failed", "failed"}

\* What getSessionStatus resolves to: a status object (status, github_url
\* and suggestions_count may be absent), or None for a falsy body.
StatusObjects ==
    [status : {None} \cup {Some(s) : s \in Statuses},
     github_url : {None, Some("https://github.com/o/r")},
     suggestions_count : {None} \cup {Some(n) : n \in 0..MaxSuggestions}]
StatusResults == {None} \cup {Some(o) : o \in StatusObjects}

(***************************************************************************)
(* App.jsx                                                                 *)
(***************************************************************************)
\* `urlSessionId || storedSessionId`
SessionToResume(u, s) == IF u # Null THEN u ELSE s

\* `status.suggestions_count ? Array.from({length: n}, (_, i) => ({sequence_number: i + 1})) : []`
SuggestionsArray(o) ==
    IF o.suggestions_count # None /\ Head(o.suggestions_count) # 0
    THEN Numbered(Head(o.suggestions_count))
    ELSE <<>>

\* resumeSession with 'processing' missing from the step 3 list.
StepForStatusNoProcessing(st) ==
    IF st # None /\ Head(st) \in {"ready", "uploading"} THEN 2
    ELSE IF st # None
            /\ (Head(st) \in {"ready_for_processing", "queued", "complete"}
                \/ IncludesFailed(Head(st)))
         THEN 3
         ELSE 2

\* The step resumeSession chooses from status.status.
StepForStatus(st) ==
    IF st # None /\ Head(st) \in {"ready", "uploading"} THEN 2
    ELSE IF st # None
            /\ (Head(st) \in {"ready_for_processing", "queued", "processing", "complete"}
                \/ IncludesFailed(Head(st)))
         THEN 3
         ELSE 2

\* useEffect(..., []) of App: resume the session of the URL or of
\* localStorage, if there is one.
AppMount ==
    /\ resumePc = "boot"
    /\ LET id == SessionToResume(urlSessionId, storedSessionId) IN
       IF id # Null
       THEN /\ loading' = TRUE
            /\ resumeId' = id
            /\ resumePc' = "await"
       ELSE /\ resumePc' = "none"
            /\ UNCHANGED <<loading, resumeId>>
    /\ UNCHANGED <<urlSessionId, storedSessionId, step, sessionId,
                   githubUrl, suggestions, resumeStatus, resumeFailed, s1Pc,
                   s1Url, s1Error, analysisResponse, analysisData>>
    /\ UNCHANGED <<pollVars, s3Vars, s2Vars, resetVars, step2Vars>>

\* resumeSession after `await api.getSessionStatus(...)` resolved with res.
ResumeStatusReturns(res) ==
    /\ resumePc = "await"
    /\ resumeStatus' = res
    /\ IF res # None
       THEN /\ sessionId' = resumeId
            /\ githubUrl' = (IF Head(res).github_url # None
                             THEN Head(Head(res).github_url) ELSE "")
            /\ suggestions' = SuggestionsArray(Head(res))
            /\ step' = StepForStatus(Head(res).status)
       ELSE UNCHANGED <<sessionId, githubUrl, suggestions, step>>
    /\ loading' = FALSE
    /\ resumePc' = "done"
    /\ UNCHANGED <<urlSessionId, storedSessionId, resumeId,
                   resumeFailed, s1Pc, s1Url, s1Error, analysisResponse,
                   analysisData>>
    /\ UNCHANGED <<pollVars, s3Vars, s2Vars, resetVars, step2Vars>>

\* A catch block that only logs and keeps the stored session.
ResumeCatchKeepsStored == UNCHANGED storedSessionId

\* The catch block of resumeSession.
ResumeCatch == storedSessionId' = Null

\* The finally block of resumeSession.
ResumeFinally == loading' = FALSE

\* resumeSession after `await api.getSessionStatus(...)` rejected.
ResumeStatusFails ==
    /\ resumePc = "await"
    /\ resumeFailed' = TRUE
    /\ ResumeCatch
    /\ ResumeFinally
    /\ resumePc' = "done"
    /\ UNCHANGED <<urlSessionId, step, sessionId, githubUrl,
                   suggestions, resumeId, resumeStatus, s1Pc, s1Url, s1Error,
                   analysisResponse, analysisData>>
    /\ UNCHANGED <<pollVars, s3Vars, s2Vars, resetVars, step2Vars>>

\* handleGitHubSubmit(url, suggestionsData)
HandleGitHubSubmit(url, data) ==
    /\ githubUrl' = url
    /\ sessionId' = data.sessionId
    /\ suggestions' = data.suggestions
    /\ storedSessionId' = data.sessionId
    /\ step' = 2

\* onBack of Step 2: `() => setStep(1)`.
HandleBack ==
    /\ step = 2 /\ sessionId # Null /\ ~loading
    /\ step' = 1
    /\ UNCHANGED <<urlSessionId, storedSessionId, sessionId,
                   githubUrl, suggestions, loading, resumePc, resumeId,
                   resumeStatus, resumeFailed, s1Pc, s1Url, s1Error,
                   analysisResponse, analysisData>>
    /\ UNCHANGED <<pollVars, s3Vars, s2Vars, resetVars, step2Vars>>

\* handleAllVideosUploaded, called by Step 2.
HandleAllVideosUploaded ==
    /\ step = 2 /\ sessionId # Null /\ ~loading
    /\ step' = 3
    /\ UNCHANGED <<urlSessionId, storedSessionId, sessionId,
                   githubUrl, suggestions, loading, resumePc, resumeId,
                   resumeStatus, resumeFailed, s1Pc, s1Url, s1Error,
                   analysisResponse, analysisData>>
    /\ UNCHANGED <<pollVars, s3Vars, s2Vars, resetVars, step2Vars>>

\* handleStartOver, called by Step 3.
HandleStartOver ==
    /\ step = 3 /\ sessionId # Null /\ ~loading
    /\ step' = 1
    /\ sessionId' = Null
    /\ githubUrl' = ""
    /\ suggestions' = <<>>
    /\ storedSessionId' = Null
    /\ urlSessionId' = Null
    /\ UNCHANGED <<loading, resumePc, resumeId, resumeStatus,
                   resumeFailed, s1Pc, s1Url, s1Error, analysisResponse,
                   analysisData>>
    /\ UNCHANGED <<pollVars, s3Vars, s2Vars, resetVars, step2Vars>>

(***************************************************************************)
(* Step1GitHubInput.jsx                                                    *)
(***************************************************************************)
\* What the user may have typed into the URL field.
UrlInputs == {"", "  ", "github.com/o/r", "https://github.com/o/r"}

\* String.prototype.trim on the strings of UrlInputs.
Trim(u) == IF u = "  " THEN "" ELSE u

\* validateGitHubUrl: the regular expression, on the strings of UrlInputs.
ValidateGitHubUrl(u) == u \in {"https://github.com/o/r"}

\* The argument handleSubmit passes to getSuggestions:
\* `analysisResponse['analysis']`.
SuggestionsArgument(data) == data.analysis

\* catch + finally of handleSubmit: the message is shown, loading ends.
S1Catch(msg) ==
    /\ s1Error' = msg
    /\ s1Pc' = "idle"

\* handleSubmit up to `await api.analyzeGitHub(githubUrl)`.  The submit
\* button is disabled while a submit is in progress.
S1HandleSubmit(u) ==
    /\ step = 1 /\ ~loading /\ resumePc \in {"none", "done"}
    /\ s1Pc = "idle"
    /\ s1Url' = u
    /\ IF Trim(u) = ""
       THEN /\ s1Error' = "Please enter a GitHub URL"
            /\ UNCHANGED <<s1Pc, analysisResponse, analysisData>>
       ELSE IF ~ValidateGitHubUrl(u)
       THEN /\ s1Error' = "Please enter a valid GitHub repository URL"
            /\ UNCHANGED <<s1Pc, analysisResponse, analysisData>>
       ELSE /\ s1Error' = ""
            /\ s1Pc' = "awaitAnalyze"
            /\ analysisResponse' = None
            /\ analysisData' = None
    /\ UNCHANGED <<urlSessionId, storedSessionId, step, sessionId,
                   githubUrl, suggestions, loading, resumePc, resumeId,
                   resumeStatus, resumeFailed>>
    /\ UNCHANGED <<pollVars, s3Vars, s2Vars, resetVars, step2Vars>>

\* POST /analyze returned resp: the rest of analyzeGitHub, then handleSubmit
\* up to the POST of getSuggestions (or to the throw of its validation).
S1AnalyzeReturns(resp) ==
    /\ s1Pc = "awaitAnalyze"
    /\ LET data == AnalyzeData(resp) IN
       IF ~AnalyzeValid(data)
       THEN /\ S1Catch("Invalid response: missing github_data")
            /\ UNCHANGED <<analysisResponse, analysisData>>
       ELSE /\ analysisResponse' = Some(data)
            /\ analysisData' = SuggestionsArgument(data)
            /\ IF ~SuggestionsInputValid(SuggestionsArgument(data))
               THEN S1Catch("Invalid analysis data: missing github_data")
               ELSE /\ s1Pc' = "awaitSuggestions"
                    /\ UNCHANGED s1Error
    /\ UNCHANGED <<urlSessionId, storedSessionId, step, sessionId,
                   githubUrl, suggestions, loading, resumePc, resumeId,
                   resumeStatus, resumeFailed, s1Url>>
    /\ UNCHANGED <<pollVars, s3Vars, s2Vars, resetVars, step2Vars>>

\* POST /analyze was rejected by the interceptor with message err.
S1AnalyzeFails(err) ==
    /\ s1Pc = "awaitAnalyze"
    /\ S1Catch(err)
    /\ UNCHANGED <<urlSessionId, storedSessionId, step, sessionId,
                   githubUrl, suggestions, loading, resumePc, resumeId,
                   resumeStatus, resumeFailed, s1Url, analysisResponse,
                   analysisData>>
    /\ UNCHANGED <<pollVars, s3Vars, s2Vars, resetVars, step2Vars>>

\* POST /suggestions returned resp: the rest of getSuggestions, then
\* onSubmit(githubUrl, suggestionsResponse), then finally.
S1SuggestionsReturns(resp) ==
    /\ s1Pc = "awaitSuggestions"
    /\ LET data == SuggestionsData(resp) IN
       IF ~SuggestionsValid(data)
       THEN /\ S1Catch("Invalid response: missing session_id")
            /\ UNCHANGED <<githubUrl, sessionId, suggestions, storedSessionId, step>>
       ELSE /\ HandleGitHubSubmit(s1Url, SuggestionsResult(data))
            /\ s1Pc' = "idle"
            /\ UNCHANGED s1Error
    /\ UNCHANGED <<urlSessionId, loading, resumePc, resumeId,
                   resumeStatus, resumeFailed, s1Url, analysisResponse,
                   analysisData>>
    /\ UNCHANGED <<pollVars, s3Vars, s2Vars, resetVars, step2Vars>>

\* POST /suggestions was rejected by the interceptor with message err.
S1SuggestionsFails(err) ==
    /\ s1Pc = "awaitSuggestions"
    /\ S1Catch(err)
    /\ UNCHANGED <<urlSessionId, storedSessionId, step, sessionId,
                   githubUrl, suggestions, loading, resumePc, resumeId,
                   resumeStatus, resumeFailed, s1Url, analysisResponse,
                   analysisData>>
    /\ UNCHANGED <<pollVars, s3Vars, s2Vars, resetVars, step2Vars>>

(***************************************************************************)
(* The states in which a part of the front end is not running.             *)
(***************************************************************************)
AppIdle ==
    /\ urlSessionId = Null /\ storedSessionId = Null
    /\ step = 1 /\ sessionId = Null /\ githubUrl = "" /\ suggestions = <<>>
    /\ loading = FALSE
    /\ resumePc = "boot" /\ resumeId = Null /\ resumeStatus = None
    /\ resumeFailed = FALSE
    /\ s1Pc = "idle" /\ s1Url = "" /\ s1Error = ""
    /\ analysisResponse = None /\ analysisData = None

PollIdle ==
    /\ env = [VITE_API_URL |-> Undefined, VITE_API_BASE_URL |-> Undefined]
    /\ baseURL = API_BASE_URL(env)
    /\ pPc = "idle" /\ pMaxAttempts = 0 /\ pOnProgress = FALSE /\ pAttempt = 0
    /\ pStatus = None /\ pRequests = 0 /\ pResponses = 0 /\ pProgressCalls = 0
    /\ pError = ""

S3Idle ==
    /\ s3Mounted = FALSE /\ s3Status = Some("processing") /\ s3Error = ""
    /\ pollingCount = 0 /\ s3Interval = FALSE /\ s3InFlight = <<>>
    /\ s3Issued = 0 /\ s3TerminalSeen = FALSE /\ s3Generating = 0

S2Idle ==
    /\ uPc = "idle" /\ uSuggestionId = 0 /\ uploadedVideos = {}
    /\ uploading = {} /\ uErrors = [k \in 0..MaxSuggestions |-> ""] /\ pollCount = 0
    /\ pollInterval = FALSE /\ pollInFlight = 0 /\ pollIssued = 0
    /\ backendStatus = None /\ allUploaded = FALSE

ResetIdle ==
    /\ rPc = "prompt" /\ rLine = <<>> /\ confirm = <<>> /\ rStep = 1
    /\ awsDeleted = {} /\ localRemoved = {} /\ rErrors = 0 /\ rExit = None

Step2Idle ==
    /\ uTasks = [k \in 1..MaxSuggestions |-> [pc |-> "idle", captured |-> {}]]
    /\ checkPc = "done" /\ checkVideos = None /\ backendUploaded = {}
    /\ completedUploads = {} /\ pollIntervals = 0 /\ proceedTimer = FALSE

(***************************************************************************)
(* The wizard: page load, resume, Step 1 submit, step changes.             *)
(***************************************************************************)
Init ==
    /\ urlSessionId \in {Null} \cup SessionIds
    /\ storedSessionId \in {Null} \cup SessionIds
    /\ step = 1 /\ sessionId = Null /\ githubUrl = "" /\ suggestions = <<>>
    /\ loading = FALSE
    /\ resumePc = "boot" /\ resumeId = Null /\ resumeStatus = None
    /\ resumeFailed = FALSE
    /\ s1Pc = "idle" /\ s1Url = "" /\ s1Error = ""
    /\ analysisResponse = None /\ analysisData = None
    /\ PollIdle /\ S3Idle /\ S2Idle /\ ResetIdle /\ Step2Idle

Next ==
    \/ AppMount
    \/ \E res \in StatusResults : ResumeStatusReturns(res)
    \/ ResumeStatusFails
    \/ \E u \in UrlInputs : S1HandleSubmit(u)
    \/ \E resp \in AnalyzeResponses : S1AnalyzeReturns(resp)
    \/ \E err \in ApiErrors : S1AnalyzeFails(err)
    \/ \E resp \in SuggestionsResponses : S1SuggestionsReturns(resp)
    \/ \E err \in ApiErrors : S1SuggestionsFails(err)
    \/ HandleBack
    \/ HandleAllVideosUploaded
    \/ HandleStartOver

Spec == Init /\ [][Next]_vars

(***************************************************************************)
(* services/api.js: pollSessionStatus.                                     *)
(***************************************************************************)
\* `maxAttempts = 60` of the options destructuring.
DefaultMaxAttempts == 60

TimeoutMessage == "Timeout waiting for video processing to complete"

\* The options a caller passes: maxAttempts absent or given, onProgress
\* absent (null) or a function.
PollOptions ==
    [maxAttempts : {None} \cup {Some(n) : n \in 0..MaxAttemptsOption},
     onProgress : BOOLEAN]

\* `status.status === 'completed'`
PollComplete(st) == st = Some("completed")

\* `status.status === 'failed' || status.status === 'error'`
PollFailed(st) == st \in {Some("failed"), Some("error")}

\* The loop test with an off-by-one: `attempt <= maxAttempts`.
PollLoopTestInclusive(a, max) == a <= max

\* The loop test `attempt < maxAttempts`.
PollLoopTest(a, max) == a < max

\* The head of the for loop with attempt = a: the next status request is
\* issued, or the loop is left and the timeout error is thrown.
PollLoopHead(a, max) ==
    /\ pAttempt' = a
    /\ IF PollLoopTest(a, max)
       THEN /\ pRequests' = pRequests + 1
            /\ pPc' = "await"
            /\ UNCHANGED pError
       ELSE /\ pPc' = "threw"
            /\ pError' = TimeoutMessage
            /\ UNCHANGED pRequests

\* A call of pollSessionStatus(sessionId, opts) up to its first await.
PollStart(opts) ==
    /\ pPc = "idle"
    /\ pMaxAttempts' = IF opts.maxAttempts = None THEN DefaultMaxAttempts
                       ELSE Head(opts.maxAttempts)
    /\ pOnProgress' = opts.onProgress
    /\ PollLoopHead(0, pMaxAttempts')
    /\ UNCHANGED <<env, baseURL, pStatus, pResponses, pProgressCalls>>
    /\ UNCHANGED <<appVars, s3Vars, s2Vars, resetVars, step2Vars>>

\* getSessionStatus resolved with res: onProgress, the two tests, then the
\* setTimeout of intervalMs.  A falsy result has no status field to test.
PollStatusReturns(res) ==
    /\ pPc = "await"
    /\ LET st == IF res = None THEN None ELSE Head(res).status IN
       /\ pStatus' = st
       /\ pResponses' = pResponses + 1
       /\ pProgressCalls' = IF pOnProgress THEN pProgressCalls + 1 ELSE pProgressCalls
       /\ IF PollComplete(st)
          THEN pPc' = "returned" /\ UNCHANGED pError
          ELSE IF PollFailed(st)
          THEN pPc' = "threw" /\ pError' = "Video processing failed"
          ELSE pPc' = "sleep" /\ UNCHANGED pError
    /\ UNCHANGED <<env, baseURL, pMaxAttempts, pOnProgress, pAttempt, pRequests>>
    /\ UNCHANGED <<appVars, s3Vars, s2Vars, resetVars, step2Vars>>

\* getSessionStatus rejected: the error leaves pollSessionStatus.
PollStatusFails(err) ==
    /\ pPc = "await"
    /\ pPc' = "threw"
    /\ pError' = err
    /\ UNCHANGED <<env, baseURL, pMaxAttempts, pOnProgress, pAttempt, pStatus,
                   pRequests, pResponses, pProgressCalls>>
    /\ UNCHANGED <<appVars, s3Vars, s2Vars, resetVars, step2Vars>>

\* The timer of intervalMs fired: attempt++ and the loop test.
PollWake ==
    /\ pPc = "sleep"
    /\ PollLoopHead(pAttempt + 1, pMaxAttempts)
    /\ UNCHANGED <<env, baseURL, pMaxAttempts, pOnProgress, pStatus, pResponses,
                   pProgressCalls>>
    /\ UNCHANGED <<appVars, s3Vars, s2Vars, resetVars, step2Vars>>

\* The module is loaded under some environment, and pollSessionStatus is
\* called once.
InitApi ==
    /\ env \in Envs
    /\ baseURL = API_BASE_URL(env)
    /\ pPc = "idle" /\ pMaxAttempts = 0 /\ pOnProgress = FALSE /\ pAttempt = 0
    /\ pStatus = None /\ pRequests = 0 /\ pResponses = 0 /\ pProgressCalls = 0
    /\ pError = ""
    /\ AppIdle /\ S3Idle /\ S2Idle /\ ResetIdle /\ Step2Idle

PollResponse ==
    \/ \E res \in StatusResults : PollStatusReturns(res)
    \/ \E err \in ApiErrors : PollStatusFails(err)

NextApi ==
    \/ \E opts \in PollOptions : PollStart(opts)
    \/ PollResponse
    \/ PollWake

SpecApi == InitApi /\ [][NextApi]_vars

\* Every status request is answered or rejected (the client's timeout is
\* 30 s), and a timer that was set fires.
FairSpecApi == SpecApi /\ WF_vars(PollResponse) /\ WF_vars(PollWake)

(***************************************************************************)
(* Step3FinalVideo (src/unnamed/part_004): the polling effect.             *)
(*                                                                         *)
(* The effect depends on [sessionId, pollingCount]; sessionId is fixed      *)
(* while the component is mounted, so each run of the effect is identified  *)
(* by the pollingCount it captured.  A pollStatus call in flight carries    *)
(* that captured value: it reads it in `pollingCount >= 60`, and its        *)
(* pollInterval is the timer of the current effect run exactly when the     *)
(* captured value is the current pollingCount.                              *)
(***************************************************************************)
\* `if (pollingCount >= 60)`
PollingLimit == 60

\* The status field of the responses Step 3 receives.
Step3Statuses ==
    {None} \cup {Some(s) : s \in {"uploading", "ready_for_processing",
                                  "stitching", "complete", "stitching_failed"}}

\* `statusResponse.status === 'complete'` or
\* `statusResponse.status?.includes('failed')`
Step3Terminal(st) == st # None /\ (Head(st) = "complete" \/ IncludesFailed(Head(st)))

\* s without its i-th element.
RemoveAt(s, i) == SubSeq(s, 1, i - 1) \o SubSeq(s, i + 1, Len(s))

\* The component is mounted: the effect sets the interval and polls once.
S3Mount ==
    /\ ~s3Mounted /\ s3Issued = 0
    /\ s3Mounted' = TRUE
    /\ s3Interval' = TRUE
    /\ s3InFlight' = <<pollingCount>>
    /\ s3Issued' = 1
    /\ UNCHANGED <<s3Status, s3Error, pollingCount, s3TerminalSeen>>
    /\ UNCHANGED s3Generating
    /\ UNCHANGED <<appVars, pollVars, s2Vars, resetVars, step2Vars>>

\* The 5 s interval of the current effect run fires: pollStatus is called.
S3Tick(maxInFlight, maxIssued) ==
    /\ s3Mounted /\ s3Interval
    /\ Len(s3InFlight) < maxInFlight /\ s3Issued < maxIssued
    /\ s3InFlight' = Append(s3InFlight, pollingCount)
    /\ s3Issued' = s3Issued + 1
    /\ UNCHANGED <<s3Mounted, s3Status, s3Error, pollingCount, s3Interval,
                   s3TerminalSeen>>
    /\ UNCHANGED s3Generating
    /\ UNCHANGED <<appVars, pollVars, s2Vars, resetVars, step2Vars>>

\* The i-th outstanding getSessionStatus resolved with status st: the try
\* block of pollStatus.  clearInterval(pollInterval) clears the timer of the
\* effect run that made the call, which is set only if that run is current.
S3PollReturns(i, st) ==
    /\ i \in 1..Len(s3InFlight)
    /\ s3InFlight' = RemoveAt(s3InFlight, i)
    /\ s3TerminalSeen' = (s3TerminalSeen \/ (s3Mounted /\ Step3Terminal(st)))
    /\ IF s3Mounted
       THEN /\ s3Status' = st
            /\ s3Error' = IF st # None /\ Head(st) # "complete" /\ IncludesFailed(Head(st))
                          THEN "Video processing failed"
                          ELSE s3Error
            /\ s3Interval' = IF Step3Terminal(st) /\ s3InFlight[i] = pollingCount
                             THEN FALSE
                             ELSE s3Interval
       ELSE UNCHANGED <<s3Status, s3Error, s3Interval>>
    /\ UNCHANGED <<s3Mounted, pollingCount, s3Issued>>
    /\ UNCHANGED s3Generating
    /\ UNCHANGED <<appVars, pollVars, s2Vars, resetVars, step2Vars>>

\* The i-th outstanding getSessionStatus rejected: the catch block of
\* pollStatus, then, pollingCount having changed, the effect runs again: its
\* cleanup clears the old interval, a new interval is set and pollStatus is
\* called.
S3PollFails(i, maxIssued) ==
    /\ i \in 1..Len(s3InFlight)
    /\ IF s3Mounted
       THEN /\ s3Issued < maxIssued
            /\ pollingCount' = pollingCount + 1
            /\ s3Error' = IF s3InFlight[i] >= PollingLimit
                          THEN "Timeout waiting for video processing"
                          ELSE s3Error
            /\ s3Interval' = TRUE
            /\ s3InFlight' = Append(RemoveAt(s3InFlight, i), pollingCount')
            /\ s3Issued' = s3Issued + 1
       ELSE /\ s3InFlight' = RemoveAt(s3InFlight, i)
            /\ UNCHANGED <<pollingCount, s3Error, s3Interval, s3Issued>>
    /\ UNCHANGED <<s3Mounted, s3Status, s3TerminalSeen>>
    /\ UNCHANGED s3Generating
    /\ UNCHANGED <<appVars, pollVars, s2Vars, resetVars, step2Vars>>

\* The component is unmounted (onStartOver): the cleanup of the effect.
S3Unmount ==
    /\ s3Mounted
    /\ s3Mounted' = FALSE
    /\ s3Interval' = FALSE
    /\ UNCHANGED <<s3Status, s3Error, pollingCount, s3InFlight, s3Issued,
                   s3TerminalSeen>>
    /\ UNCHANGED s3Generating
    /\ UNCHANGED <<appVars, pollVars, s2Vars, resetVars, step2Vars>>

\* The condition under which the render shows the view with the
\* 'Generate Final Demo Video' button:
\* `status === 'ready_for_processing' || status === 'uploading'`.
ShowsGenerate(st) == st \in {Some("ready_for_processing"), Some("uploading")}

\* handleGenerateVideo up to `await api.generateFinalVideo(sessionId)`.
S3HandleGenerate ==
    /\ s3Mounted /\ ShowsGenerate(s3Status)
    /\ s3Generating < MaxGenerating
    /\ s3Status' = Some("queued")
    /\ s3Generating' = s3Generating + 1
    /\ UNCHANGED <<s3Mounted, s3Error, pollingCount, s3Interval, s3InFlight,
                   s3Issued, s3TerminalSeen>>
    /\ UNCHANGED <<appVars, pollVars, s2Vars, resetVars, step2Vars>>

\* POST /generate returned.
S3GenerateReturns ==
    /\ s3Generating > 0
    /\ s3Generating' = s3Generating - 1
    /\ UNCHANGED <<s3Mounted, s3Status, s3Error, pollingCount, s3Interval,
                   s3InFlight, s3Issued, s3TerminalSeen>>
    /\ UNCHANGED <<appVars, pollVars, s2Vars, resetVars, step2Vars>>

\* POST /generate was rejected: the catch block of handleGenerateVideo.
S3GenerateFails(err) ==
    /\ s3Generating > 0
    /\ s3Generating' = s3Generating - 1
    /\ s3Error' = IF s3Mounted THEN err ELSE s3Error
    /\ UNCHANGED <<s3Mounted, s3Status, pollingCount, s3Interval, s3InFlight,
                   s3Issued, s3TerminalSeen>>
    /\ UNCHANGED <<appVars, pollVars, s2Vars, resetVars, step2Vars>>

InitStep3 == AppIdle /\ PollIdle /\ S3Idle /\ S2Idle /\ ResetIdle /\ Step2Idle

NextStep3 ==
    \/ S3Mount
    \/ S3Tick(MaxInFlight3, MaxIssued3)
    \/ \E i \in 1..MaxInFlight3, st \in Step3Statuses : S3PollReturns(i, st)
    \/ \E i \in 1..MaxInFlight3 : S3PollFails(i, MaxIssued3)
    \/ S3Unmount
    \/ S3HandleGenerate
    \/ S3GenerateReturns
    \/ \E err \in ApiErrors : S3GenerateFails(err)

SpecStep3 == InitStep3 /\ [][NextStep3]_vars

\* The same component followed for more than 60 status requests.
NextStep3Long ==
    \/ S3Mount
    \/ S3Tick(LongInFlight3, LongIssued3)
    \/ \E i \in 1..LongInFlight3, st \in Step3Statuses : S3PollReturns(i, st)
    \/ \E i \in 1..LongInFlight3 : S3PollFails(i, LongIssued3)
    \/ S3Unmount
    \/ S3HandleGenerate
    \/ S3GenerateReturns
    \/ \E err \in ApiErrors : S3GenerateFails(err)

SpecStep3Long == InitStep3 /\ [][NextStep3Long]_vars

(***************************************************************************)
(* Step2SuggestionsWithUpload (src/unnamed/part_002): one upload, from the *)
(* file dialog to the end of the confirmation polling it starts.           *)
(***************************************************************************)
\* `100 * 1024 * 1024`
MaxFileSize == 104857600

\* `if (pollCount >= 15) clearInterval(pollInterval)`
PollStopCount == 15

\* The files of the dialog: a MIME type that starts with 'video/' or not,
\* and a size in bytes.
Files == [video : BOOLEAN, size : {1, MaxFileSize, MaxFileSize + 1}]

\* How the PUT to the presigned URL ends: "" for status 200, else the message
\* of the rejection.
PutOutcomes == {"", "Upload failed with status 403: Forbidden",
                "Network error during upload", "Upload aborted"}

\* The `videos` array of a status response, absent or giving every video of
\* the session the same status.
VideoStatuses == {None, Some("uploaded"), Some("validated")}

\* The statusMap pollStatus builds from status.videos.
StatusMap(vs) == [i \in 1..Len(suggestions) |-> Head(vs)]

\* `!file.type.startsWith('video/')`
FileNotVideo(file) == ~file.video

\* A size test that compares with 1000 MB instead of 100 MB.
FileTooLargeWrongLimit(file) == file.size > 1000 * 1024 * 1024

\* `file.size > 100 * 1024 * 1024`
FileTooLarge(file) == file.size > MaxFileSize

\* input.onchange of handleFileSelect for the suggestion at `index`, then
\* uploadVideo up to `await api.getUploadUrl(...)`.  The upload button of a
\* suggestion is disabled while it uploads.
S2FileSelected(index, file) ==
    /\ step = 2 /\ uPc = "idle"
    /\ index \in 0..(Len(suggestions) - 1)
    /\ IF FileNotVideo(file)
       THEN /\ uErrors' = [uErrors EXCEPT ![index] = "Please select a video file"]
            /\ UNCHANGED <<uPc, uSuggestionId, uploading>>
       ELSE IF FileTooLarge(file)
       THEN /\ uErrors' = [uErrors EXCEPT ![index] = "File size must be less than 100MB"]
            /\ UNCHANGED <<uPc, uSuggestionId, uploading>>
       ELSE /\ uSuggestionId' = suggestions[index + 1]
            /\ uploading' = uploading \cup {uSuggestionId'}
            /\ uErrors' = [uErrors EXCEPT ![uSuggestionId'] = ""]
            /\ uPc' = "awaitUrl"
    /\ UNCHANGED <<uploadedVideos, pollCount, pollInterval, pollInFlight,
                   pollIssued, backendStatus, allUploaded>>
    /\ UNCHANGED <<appVars, pollVars, s3Vars, resetVars, step2Vars>>

\* catch + finally of uploadVideo.
S2UploadCatch(msg) ==
    /\ uErrors' = [uErrors EXCEPT ![uSuggestionId] = msg]
    /\ uploading' = uploading \ {uSuggestionId}
    /\ uPc' = "idle"
    /\ UNCHANGED <<uSuggestionId, uploadedVideos, pollCount, pollInterval,
                   pollInFlight, pollIssued, backendStatus, allUploaded>>

\* POST /upload-url returned: the PUT is sent.
S2UploadUrlReturns ==
    /\ uPc = "awaitUrl"
    /\ uPc' = "awaitPut"
    /\ UNCHANGED <<uSuggestionId, uploadedVideos, uploading, uErrors, pollCount,
                   pollInterval, pollInFlight, pollIssued, backendStatus,
                   allUploaded>>
    /\ UNCHANGED <<appVars, pollVars, s3Vars, resetVars, step2Vars>>

\* POST /upload-url was rejected.
S2UploadUrlFails(err) ==
    /\ uPc = "awaitUrl"
    /\ S2UploadCatch(err)
    /\ UNCHANGED <<appVars, pollVars, s3Vars, resetVars, step2Vars>>

\* The PUT ended.  On status 200 the suggestion is marked as uploaded, the
\* confirmation polling is started (pollCount = 0, setInterval) and, when
\* every suggestion has a video, the confirmation is shown.
S2PutEnds(outcome) ==
    /\ uPc = "awaitPut"
    /\ IF outcome # ""
       THEN S2UploadCatch(outcome)
       ELSE /\ uploadedVideos' = uploadedVideos \cup {uSuggestionId}
            /\ pollCount' = 0
            /\ pollInterval' = TRUE
            /\ allUploaded' = (allUploaded
                               \/ Cardinality(uploadedVideos') = Len(suggestions))
            /\ uploading' = uploading \ {uSuggestionId}
            /\ uPc' = "done"
            /\ UNCHANGED <<uSuggestionId, uErrors, pollInFlight, pollIssued,
                           backendStatus>>
    /\ UNCHANGED <<appVars, pollVars, s3Vars, resetVars, step2Vars>>

\* The 2 s interval fires: the callback calls pollStatus, which requests the
\* session status.
S2PollTick ==
    /\ pollInterval
    /\ pollInFlight < MaxPollInFlight /\ pollIssued < MaxPollIssued
    /\ pollInFlight' = pollInFlight + 1
    /\ pollIssued' = pollIssued + 1
    /\ UNCHANGED <<uPc, uSuggestionId, uploadedVideos, uploading, uErrors,
                   pollCount, pollInterval, backendStatus, allUploaded>>
    /\ UNCHANGED <<appVars, pollVars, s3Vars, resetVars, step2Vars>>

\* The rest of an interval callback after `await pollStatus()`:
\* `pollCount++; if (pollCount >= 15) clearInterval(pollInterval)`.
S2PollCount ==
    /\ pollInFlight' = pollInFlight - 1
    /\ pollCount' = pollCount + 1
    /\ pollInterval' = IF pollCount' >= PollStopCount THEN FALSE ELSE pollInterval

\* An outstanding status request returned with `videos` = vs.
S2PollReturns(vs) ==
    /\ pollInFlight > 0
    /\ backendStatus' = IF vs # None THEN Some(StatusMap(vs)) ELSE backendStatus
    /\ S2PollCount
    /\ UNCHANGED <<uPc, uSuggestionId, uploadedVideos, uploading, uErrors,
                   pollIssued, allUploaded>>
    /\ UNCHANGED <<appVars, pollVars, s3Vars, resetVars, step2Vars>>

\* An outstanding status request was rejected: pollStatus logs the error.
S2PollFails ==
    /\ pollInFlight > 0
    /\ S2PollCount
    /\ UNCHANGED <<uPc, uSuggestionId, uploadedVideos, uploading, uErrors,
                   pollIssued, backendStatus, allUploaded>>
    /\ UNCHANGED <<appVars, pollVars, s3Vars, resetVars, step2Vars>>

\* Step 2 is shown for a session with one or more suggestions.
InitUploadPoll ==
    /\ urlSessionId = Null
    /\ sessionId \in SessionIds /\ storedSessionId = sessionId
    /\ step = 2 /\ githubUrl = "https://github.com/o/r"
    /\ suggestions \in {Numbered(n) : n \in 1..MaxSuggestions}
    /\ loading = FALSE
    /\ resumePc = "none" /\ resumeId = Null /\ resumeStatus = None
    /\ resumeFailed = FALSE
    /\ s1Pc = "idle" /\ s1Url = "" /\ s1Error = ""
    /\ analysisResponse = None /\ analysisData = None
    /\ PollIdle /\ S3Idle /\ S2Idle /\ ResetIdle /\ Step2Idle

NextUploadPoll ==
    \/ \E index \in 0..(MaxSuggestions - 1), file \in Files : S2FileSelected(index, file)
    \/ S2UploadUrlReturns
    \/ \E err \in ApiErrors : S2UploadUrlFails(err)
    \/ \E outcome \in PutOutcomes : S2PutEnds(outcome)
    \/ S2PollTick
    \/ \E vs \in VideoStatuses : S2PollReturns(vs)
    \/ S2PollFails

SpecUploadPoll == InitUploadPoll /\ [][NextUploadPoll]_vars

(***************************************************************************)
(* force-reset-everything.sh.  The text typed at a prompt is a sequence of *)
(* characters; the words DELETE and EVERYTHING stand for their letters and *)
(* "x" for any other character.                                            *)
(***************************************************************************)
MaxLineLen == 4
LineChars == {"DELETE", "EVERYTHING", " ", "\\", "x"}

\* A backslash at the end of the line makes `read` go on to the next line, so
\* the text `read` consumes never ends in an unescaped backslash.
RECURSIVE DanglingBackslash(_)
DanglingBackslash(line) ==
    IF line = <<>> THEN FALSE
    ELSE IF Head(line) = "\\"
         THEN Len(line) = 1 \/ DanglingBackslash(Tail(Tail(line)))
         ELSE DanglingBackslash(Tail(line))

Lines ==
    {l \in UNION {[1..n -> LineChars] : n \in 0..MaxLineLen} : ~DanglingBackslash(l)}

\* `read` without -r: a backslash is removed and quotes the next character.
RECURSIVE Unescape(_)
Unescape(line) ==
    IF line = <<>> THEN <<>>
    ELSE IF Head(line) = "\\"
         THEN <<[c |-> line[2], quoted |-> TRUE]>> \o Unescape(Tail(Tail(line)))
         ELSE <<[c |-> Head(line), quoted |-> FALSE]>> \o Unescape(Tail(line))

IsIfsSpace(ch) == ch.c = " " /\ ~ch.quoted

\* `read` into one variable: leading and trailing IFS white space is removed.
RECURSIVE TrimLeft(_)
TrimLeft(q) ==
    IF q # <<>> /\ IsIfsSpace(Head(q)) THEN TrimLeft(Tail(q)) ELSE q

RECURSIVE TrimRight(_)
TrimRight(q) ==
    IF q # <<>> /\ IsIfsSpace(q[Len(q)]) THEN TrimRight(SubSeq(q, 1, Len(q) - 1)) ELSE q

ReadVar(line) ==
    LET q == TrimRight(TrimLeft(Unescape(line)))
    IN  [i \in 1..Len(q) |-> q[i].c]

DeleteEverything == <<"DELETE", " ", "EVERYTHING">>

\* [ "$confirm" != "DELETE EVERYTHING" ] is false
ConfirmedPrefix(c) == c # <<>> /\ Head(c) = "DELETE"
Confirmed(c) == c = DeleteEverything

\* The sections of phases 1 and 2 that issue AWS delete commands, in order:
\* the service, and whether the command is issued only for a resource found.
DeleteSteps ==
    << [service |-> "cloudformation", guarded |-> TRUE],
       [service |-> "s3", guarded |-> TRUE],
       [service |-> "dynamodb", guarded |-> TRUE],
       [service |-> "lambda", guarded |-> TRUE],
       [service |-> "lambda", guarded |-> TRUE],
       [service |-> "apigateway", guarded |-> TRUE],
       [service |-> "sqs", guarded |-> TRUE],
       [service |-> "sns", guarded |-> TRUE],
       [service |-> "events", guarded |-> TRUE],
       [service |-> "logs", guarded |-> TRUE],
       [service |-> "iam", guarded |-> TRUE],
       [service |-> "cloudformation", guarded |-> TRUE],
       [service |-> "s3", guarded |-> TRUE],
       [service |-> "iam", guarded |-> TRUE],
       [service |-> "ssm", guarded |-> FALSE] >>

LocalCache == {"cdk.out", "cdk.context.json", "~/.cdk/cache"}

ResetExit(code) == rPc' = "exited" /\ rExit' = Some(code)

\* read -p "Type 'DELETE EVERYTHING' to confirm: " confirm
ResetRead(line) ==
    /\ rPc = "prompt"
    /\ rLine' = line /\ confirm' = ReadVar(line)
    /\ rPc' = "check"
    /\ UNCHANGED <<rStep, awsDeleted, localRemoved, rErrors, rExit>>
    /\ UNCHANGED <<appVars, pollVars, s3Vars, s2Vars, step2Vars>>

ResetConfirm ==
    /\ rPc = "check"
    /\ IF ~Confirmed(confirm)
       THEN ResetExit(0)
       ELSE rPc' = "delete" /\ rExit' = rExit
    /\ UNCHANGED <<rLine, confirm, rStep, awsDeleted, localRemoved, rErrors>>
    /\ UNCHANGED <<appVars, pollVars, s3Vars, s2Vars, step2Vars>>

ResetDeleteStep(found) ==
    /\ rPc = "delete"
    /\ awsDeleted' = IF found \/ ~DeleteSteps[rStep].guarded
                     THEN awsDeleted \cup {DeleteSteps[rStep].service}
                     ELSE awsDeleted
    /\ IF rStep < Len(DeleteSteps)
       THEN rStep' = rStep + 1 /\ rPc' = rPc
       ELSE rStep' = rStep /\ rPc' = "cache"
    /\ UNCHANGED <<rLine, confirm, localRemoved, rErrors, rExit>>
    /\ UNCHANGED <<appVars, pollVars, s3Vars, s2Vars, step2Vars>>

ResetClearCache ==
    /\ rPc = "cache"
    /\ localRemoved' = localRemoved \cup LocalCache
    /\ rPc' = "verify"
    /\ UNCHANGED <<rLine, confirm, rStep, awsDeleted, rErrors, rExit>>
    /\ UNCHANGED <<appVars, pollVars, s3Vars, s2Vars, step2Vars>>

\* Phase 3: the bucket, table and function checks each count one error.
ResetVerify(remaining) ==
    /\ rPc = "verify"
    /\ rErrors' = Cardinality(remaining)
    /\ rPc' = IF rErrors' > 0 THEN "continue" ELSE "bootstrap"
    /\ UNCHANGED <<rLine, confirm, rStep, awsDeleted, localRemoved, rExit>>
    /\ UNCHANGED <<appVars, pollVars, s3Vars, s2Vars, step2Vars>>

\* read -p "Continue with bootstrap anyway? (y/n): " continue_bootstrap
ResetContinue(answer) ==
    /\ rPc = "continue"
    /\ IF answer # "y"
       THEN ResetExit(0)
       ELSE rPc' = "bootstrap" /\ rExit' = rExit
    /\ UNCHANGED <<rLine, confirm, rStep, awsDeleted, localRemoved, rErrors>>
    /\ UNCHANGED <<appVars, pollVars, s3Vars, s2Vars, step2Vars>>

BootstrapOutcomes == {"ok", "roleMissing", "stackMissing", "failed"}

\* Phase 4 and, when the bootstrap is verified, phase 5 to the last echo.
ResetBootstrap(outcome) ==
    /\ rPc = "bootstrap"
    /\ ResetExit(IF outcome = "ok" THEN 0 ELSE 1)
    /\ UNCHANGED <<rLine, confirm, rStep, awsDeleted, localRemoved, rErrors>>
    /\ UNCHANGED <<appVars, pollVars, s3Vars, s2Vars, step2Vars>>

InitReset == AppIdle /\ PollIdle /\ S3Idle /\ S2Idle /\ ResetIdle /\ Step2Idle

NextReset ==
    \/ rPc = "prompt" /\ \E line \in Lines : ResetRead(line)
    \/ ResetConfirm
    \/ \E found \in BOOLEAN : ResetDeleteStep(found)
    \/ ResetClearCache
    \/ \E remaining \in SUBSET {"buckets", "tables", "functions"} : ResetVerify(remaining)
    \/ \E answer \in {"y", "n", ""} : ResetContinue(answer)
    \/ \E outcome \in BootstrapOutcomes : ResetBootstrap(outcome)

SpecReset == InitReset /\ [][NextReset]_vars

(***************************************************************************)
(* Step2SuggestionsWithUpload with an upload per suggestion and the        *)
(* mount-time status fetch.  uploadedVideos is the set of keys of the      *)
(* component's uploadedVideos object.  The interval callbacks of the       *)
(* confirmation polling write backendStatus only; their counting is the    *)
(* subject of SpecUploadPoll.                                              *)
(***************************************************************************)
\* Successful PUTs per mount.
MaxUploads == 3

SuggestionIds == {suggestions[i] : i \in 1..Len(suggestions)}

UploadsStarted ==
    pollIntervals + Cardinality({k \in 1..MaxSuggestions : uTasks[k].pc # "idle"})

\* Statuses the backend gives an uploaded video.
UploadedStatuses == {"uploaded", "validated"}

\* The Upload Video button of the suggestion at `index` is clicked (it is
\* rendered while the suggestion is not in uploadedVideos and disabled while
\* it uploads): handleFileSelect of the current render opens the file dialog.
\* The handlers of that render see that render's uploadedVideos.
S2Click(index) ==
    LET suggestionId == suggestions[index + 1] IN
    /\ step = 2
    /\ index \in 0..(Len(suggestions) - 1)
    /\ suggestionId \notin uploadedVideos /\ suggestionId \notin uploading
    /\ uTasks[suggestionId].pc = "idle"
    /\ UploadsStarted < MaxUploads
    /\ uTasks' = [uTasks EXCEPT ![suggestionId] =
                      [pc |-> "dialog", captured |-> uploadedVideos]]
    /\ UNCHANGED <<checkPc, checkVideos, backendUploaded, completedUploads,
                   pollIntervals, proceedTimer>>
    /\ UNCHANGED <<appVars, pollVars, s3Vars, s2Vars, resetVars>>

\* The dialog is closed without a file: `if (!file) return`, or no change
\* event at all.
S2DialogCancelled(index) ==
    LET suggestionId == suggestions[index + 1] IN
    /\ index \in 0..(Len(suggestions) - 1)
    /\ uTasks[suggestionId].pc = "dialog"
    /\ uTasks' = [uTasks EXCEPT ![suggestionId].pc = "idle"]
    /\ UNCHANGED <<checkPc, checkVideos, backendUploaded, completedUploads,
                   pollIntervals, proceedTimer>>
    /\ UNCHANGED <<appVars, pollVars, s3Vars, s2Vars, resetVars>>

\* input.onchange with a file, then uploadVideo up to
\* `await api.getUploadUrl(...)`.
S2FileChosen(index, file) ==
    LET suggestionId == suggestions[index + 1] IN
    /\ index \in 0..(Len(suggestions) - 1)
    /\ uTasks[suggestionId].pc = "dialog"
    /\ IF FileNotVideo(file)
       THEN /\ uErrors' = [uErrors EXCEPT ![index] = "Please select a video file"]
            /\ uTasks' = [uTasks EXCEPT ![suggestionId].pc = "idle"]
            /\ UNCHANGED uploading
       ELSE IF FileTooLarge(file)
       THEN /\ uErrors' = [uErrors EXCEPT ![index] = "File size must be less than 100MB"]
            /\ uTasks' = [uTasks EXCEPT ![suggestionId].pc = "idle"]
            /\ UNCHANGED uploading
       ELSE /\ uploading' = uploading \cup {suggestionId}
            /\ uErrors' = [uErrors EXCEPT ![suggestionId] = ""]
            /\ uTasks' = [uTasks EXCEPT ![suggestionId].pc = "awaitUrl"]
    /\ UNCHANGED <<uPc, uSuggestionId, uploadedVideos, pollCount, pollInterval,
                   pollInFlight, pollIssued, backendStatus, allUploaded>>
    /\ UNCHANGED <<checkPc, checkVideos, backendUploaded, completedUploads,
                   pollIntervals, proceedTimer>>
    /\ UNCHANGED <<appVars, pollVars, s3Vars, resetVars>>

\* catch + finally of uploadVideo for one suggestion.
S2TaskCatch(suggestionId, msg) ==
    /\ uErrors' = [uErrors EXCEPT ![suggestionId] = msg]
    /\ uploading' = uploading \ {suggestionId}
    /\ uTasks' = [uTasks EXCEPT ![suggestionId].pc = "idle"]
    /\ UNCHANGED <<uPc, uSuggestionId, uploadedVideos, pollCount, pollInterval,
                   pollInFlight, pollIssued, backendStatus, allUploaded>>
    /\ UNCHANGED <<checkPc, checkVideos, backendUploaded, completedUploads,
                   pollIntervals, proceedTimer>>

\* POST /upload-url returned for a suggestion: its PUT is sent.
S2TaskUrlReturns(suggestionId) ==
    /\ suggestionId \in SuggestionIds
    /\ uTasks[suggestionId].pc = "awaitUrl"
    /\ uTasks' = [uTasks EXCEPT ![suggestionId].pc = "awaitPut"]
    /\ UNCHANGED <<checkPc, checkVideos, backendUploaded, completedUploads,
                   pollIntervals, proceedTimer>>
    /\ UNCHANGED <<appVars, pollVars, s3Vars, s2Vars, resetVars>>

\* POST /upload-url was rejected.
S2TaskUrlFails(suggestionId, err) ==
    /\ suggestionId \in SuggestionIds
    /\ uTasks[suggestionId].pc = "awaitUrl"
    /\ S2TaskCatch(suggestionId, err)
    /\ UNCHANGED <<appVars, pollVars, s3Vars, resetVars>>

\* `{...uploadedVideos, [suggestionId]: file.name}` in the render whose
\* handler started the upload.
NewUploadedVideos(task, suggestionId) == task.captured \cup {suggestionId}

\* The PUT of a suggestion ended.  On status 200 the bucket holds the video,
\* uploadedVideos is set to newUploadedVideos, a confirmation interval is set
\* and, when newUploadedVideos has a key per suggestion, the confirmation is
\* shown and the auto-proceed timeout is set.
S2TaskPutEnds(suggestionId, outcome) ==
    /\ suggestionId \in SuggestionIds
    /\ uTasks[suggestionId].pc = "awaitPut"
    /\ IF outcome # ""
       THEN /\ S2TaskCatch(suggestionId, outcome)
       ELSE LET newUploadedVideos == NewUploadedVideos(uTasks[suggestionId], suggestionId)
                all == Cardinality(newUploadedVideos) = Len(suggestions)
            IN  /\ uploadedVideos' = newUploadedVideos
                /\ backendUploaded' = backendUploaded \cup {suggestionId}
                /\ completedUploads' = completedUploads \cup {suggestionId}
                /\ pollIntervals' = pollIntervals + 1
                /\ allUploaded' = (allUploaded \/ all)
                /\ proceedTimer' = (proceedTimer \/ all)
                /\ uploading' = uploading \ {suggestionId}
                /\ uTasks' = [uTasks EXCEPT ![suggestionId].pc = "idle"]
                /\ UNCHANGED <<uPc, uSuggestionId, uErrors, pollCount, pollInterval,
                               pollInFlight, pollIssued, backendStatus>>
                /\ UNCHANGED <<checkPc, checkVideos>>
    /\ UNCHANGED <<appVars, pollVars, s3Vars, resetVars>>

\* The backend answers the status request of checkExistingUploads: `videos`
\* is absent, or marks as uploaded the videos the bucket holds.
S2CheckServed(withVideos) ==
    /\ checkPc = "await"
    /\ checkVideos' = IF withVideos THEN Some(backendUploaded) ELSE None
    /\ checkPc' = "served"
    /\ UNCHANGED <<uTasks, backendUploaded, completedUploads, pollIntervals,
                   proceedTimer>>
    /\ UNCHANGED <<appVars, pollVars, s3Vars, s2Vars, resetVars>>

\* `await api.getSessionStatus(sessionId)` of checkExistingUploads returns.
S2CheckReturns(st) ==
    /\ checkPc = "served"
    /\ checkPc' = "done" /\ checkVideos' = None
    /\ IF step = 2 /\ checkVideos # None
       THEN /\ uploadedVideos' = Head(checkVideos)
            /\ backendStatus' = Some([k \in Head(checkVideos) |-> st])
       ELSE UNCHANGED <<uploadedVideos, backendStatus>>
    /\ UNCHANGED <<uPc, uSuggestionId, uploading, uErrors, pollCount, pollInterval,
                   pollInFlight, pollIssued, allUploaded>>
    /\ UNCHANGED <<uTasks, backendUploaded, completedUploads, pollIntervals,
                   proceedTimer>>
    /\ UNCHANGED <<appVars, pollVars, s3Vars, resetVars>>

\* The status request of checkExistingUploads was rejected.
S2CheckFails ==
    /\ checkPc \in {"await", "served"}
    /\ checkPc' = "done" /\ checkVideos' = None
    /\ UNCHANGED <<uTasks, backendUploaded, completedUploads, pollIntervals,
                   proceedTimer>>
    /\ UNCHANGED <<appVars, pollVars, s3Vars, s2Vars, resetVars>>

\* A callback of a confirmation interval got its status response.
S2ConfirmationPoll(vs) ==
    /\ step = 2 /\ pollIntervals > 0
    /\ vs # None
    /\ backendStatus' = Some(StatusMap(vs))
    /\ UNCHANGED <<uPc, uSuggestionId, uploadedVideos, uploading, uErrors, pollCount,
                   pollInterval, pollInFlight, pollIssued, allUploaded>>
    /\ UNCHANGED <<appVars, pollVars, s3Vars, resetVars, step2Vars>>

\* The Continue buttons, shown when uploadedVideos has a key per suggestion.
S2Continue ==
    /\ Cardinality(uploadedVideos) > 0
    /\ Cardinality(uploadedVideos) = Len(suggestions)
    /\ HandleAllVideosUploaded

\* The auto-proceed timeout fires: onAllVideosUploaded(newUploadedVideos).
S2AutoProceed ==
    /\ proceedTimer
    /\ proceedTimer' = FALSE
    /\ step' = 3
    /\ UNCHANGED <<urlSessionId, storedSessionId, sessionId,
                   githubUrl, suggestions, loading, resumePc, resumeId,
                   resumeStatus, resumeFailed, s1Pc, s1Url, s1Error,
                   analysisResponse, analysisData>>
    /\ UNCHANGED <<uTasks, checkPc, checkVideos, backendUploaded, completedUploads,
                   pollIntervals>>
    /\ UNCHANGED <<pollVars, s3Vars, s2Vars, resetVars>>

\* Step 2 is mounted for a session with one or more suggestions, some of
\* which may have a video in the bucket from an earlier visit; the mount
\* effect has called checkExistingUploads.
InitStep2 ==
    /\ urlSessionId = Null
    /\ sessionId \in SessionIds /\ storedSessionId = sessionId
    /\ step = 2 /\ githubUrl = "https://github.com/o/r"
    /\ suggestions \in {Numbered(n) : n \in 1..MaxSuggestions}
    /\ loading = FALSE
    /\ resumePc = "none" /\ resumeId = Null /\ resumeStatus = None
    /\ resumeFailed = FALSE
    /\ s1Pc = "idle" /\ s1Url = "" /\ s1Error = ""
    /\ analysisResponse = None /\ analysisData = None
    /\ PollIdle /\ S3Idle /\ S2Idle /\ ResetIdle
    /\ uTasks = [k \in 1..MaxSuggestions |-> [pc |-> "idle", captured |-> {}]]
    /\ checkPc = "await" /\ checkVideos = None
    /\ backendUploaded \in SUBSET SuggestionIds
    /\ completedUploads = {} /\ pollIntervals = 0 /\ proceedTimer = FALSE

NextStep2 ==
    \/ \E index \in 0..(MaxSuggestions - 1) : S2Click(index)
    \/ \E index \in 0..(MaxSuggestions - 1) : S2DialogCancelled(index)
    \/ \E index \in 0..(MaxSuggestions - 1), file \in Files : S2FileChosen(index, file)
    \/ \E id \in 1..MaxSuggestions : S2TaskUrlReturns(id)
    \/ \E id \in 1..MaxSuggestions, err \in ApiErrors : S2TaskUrlFails(id, err)
    \/ \E id \in 1..MaxSuggestions, outcome \in PutOutcomes : S2TaskPutEnds(id, outcome)
    \/ \E withVideos \in BOOLEAN : S2CheckServed(withVideos)
    \/ \E st \in UploadedStatuses : S2CheckReturns(st)
    \/ S2CheckFails
    \/ \E vs \in VideoStatuses : S2ConfirmationPoll(vs)
    \/ S2Continue
    \/ S2AutoProceed
    \/ HandleBack

SpecStep2 == InitStep2 /\ [][NextStep2]_vars

C2_SuggestionsGetAnalyzeOutput ==
    analysisResponse # None =>
        /\ analysisData = analysisResponse
        /\ s1Error # "Invalid analysis data: missing github_data"

\* C8: when resumeSession obtains a status, the step is 2 for 'ready' and
\* 'uploading', 3 for 'ready_for_processing', 'queued', 'processing',
\* 'complete' and every status containing 'failed', 2 for anything else;
\* sessionId is the resumed id and suggestions is 1..suggestions_count.
C8_ResumeStep ==
    [][(resumePc = "await" /\ resumePc' = "done" /\ resumeStatus' # None) =>
         LET o == Head(resumeStatus')
             n == IF o.suggestions_count = None THEN 0 ELSE Head(o.suggestions_count)
             upload == {Some("ready"), Some("uploading")}
             final == {Some(x) : x \in {"ready_for_processing", "queued",
                                        "processing", "complete",
                                        "stitching_failed", "failed"}}
         IN /\ o.status \in upload => step' = 2
            /\ o.status \in final => step' = 3
            /\ o.status \notin upload \cup final => step' = 2
            /\ sessionId' = resumeId /\ resumeId \in SessionIds
            /\ Len(suggestions') = n
            /\ \A i \in 1..n : suggestions'[i] = i
      ]_vars

\* C8 witness: a session resumed at a failed status with two suggestions.
C8_Witness ==
    /\ resumePc = "done" /\ resumeStatus # None
    /\ Head(resumeStatus).status = Some("stitching_failed")
    /\ step = 3 /\ sessionId = resumeId /\ suggestions = <<1, 2>>

\* C9: when the status request of resumeSession fails, currentSessionId is
\* removed from localStorage, sessionId stays null and the wizard stays on
\* step 1; and in every outcome loading is false once resumeSession is over.
C9_ResumeFailureStartsFresh ==
    [][/\ (resumePc = "await" /\ resumePc' = "done" /\ resumeFailed') =>
             /\ storedSessionId' = Null
             /\ sessionId' = Null /\ step' = 1 /\ suggestions' = <<>>
       /\ resumePc' = "done" => loading' = FALSE
      ]_vars

\* C9 witness: the session of localStorage could not be resumed and is gone.
C9_Witness ==
    /\ resumePc = "done" /\ resumeFailed /\ urlSessionId = Null
    /\ resumeId \in SessionIds /\ storedSessionId = Null
    /\ step = 1 /\ ~loading

(***************************************************************************)
(* Properties of services/api.js (specifications SpecApi, FairSpecApi).    *)
(***************************************************************************)
PollDone == pPc \in {"returned", "threw"}

\* C5: pollSessionStatus returns as soon as a poll reports 'complete' and
\* throws as soon as a poll reports a status containing 'failed': right after
\* such a response it is not waiting for another attempt.
C5_PollTerminalStatuses ==
    (pPc \in {"sleep", "returned", "threw"} /\ pStatus # None) =>
        /\ Head(pStatus) = "complete" => pPc = "returned"
        /\ IncludesFailed(Head(pStatus)) => pPc = "threw"

\* C6: a call of pollSessionStatus issues at most maxAttempts status requests
\* (60 when the option is absent), calls onProgress once per request that
\* returned, ends with the timeout error exactly when all maxAttempts
\* requests returned without one of the statuses the function ends on
\* ('completed', 'failed', 'error'), and, requests being answered, ends.
C6_PollTerminates ==
    /\ [](/\ pRequests <= pMaxAttempts
          /\ pMaxAttempts \in 0..MaxAttemptsOption \cup {60}
          /\ pResponses <= pRequests
          /\ pProgressCalls = (IF pOnProgress THEN pResponses ELSE 0)
          /\ (pPc = "threw" /\ pError = "Timeout waiting for video processing to complete")
               <=> (/\ PollDone
                    /\ pResponses = pMaxAttempts
                    /\ pStatus \notin {Some("completed"), Some("failed"), Some("error")}
                    /\ pError \notin ApiErrors)
          /\ pPc = "returned" => pStatus = Some("completed"))
    /\ (pPc # "idle") ~> PollDone

\* C6 witness: a call with the default options gave up after 60 requests.
C6_Witness ==
    /\ pPc = "threw" /\ pError = TimeoutMessage
    /\ pRequests = 60 /\ pResponses = 60

\* C7: the client's base URL is the value configured as VITE_API_BASE_URL
\* whenever one is configured, and the localhost default only otherwise.
C7_BaseUrlFromReadmeVariable ==
    /\ Truthy(env.VITE_API_BASE_URL) => baseURL = env.VITE_API_BASE_URL
    /\ baseURL = LocalhostDefault => ~Truthy(env.VITE_API_BASE_URL)

(***************************************************************************)
(* Properties of Step 3 (specifications SpecStep3, SpecStep3Long).         *)
(***************************************************************************)
\* C3: once a poll has returned 'complete' or a status containing 'failed',
\* Step 3 starts no further status request while it stays mounted.
C3_NoPollAfterTerminal ==
    [][(s3TerminalSeen /\ s3Mounted /\ s3Mounted') => s3Issued' = s3Issued]_vars

\* C4: when 60 status polls have been made and none returned 'complete' or
\* a failed status, Step 3 issues no further status request.
C4_StopsAfter60Polls ==
    [][(s3Mounted /\ s3Mounted' /\ ~s3TerminalSeen /\ s3Issued >= 60)
         => s3Issued' = s3Issued]_vars

(***************************************************************************)
(* Properties of Step 2 (specification SpecUploadPoll).                    *)
(***************************************************************************)
\* C10: the polling one upload starts issues at most 15 status requests, and
\* its interval is cleared once 15 of them have been counted.
C10_AtMost15StatusRequests ==
    /\ pollIssued <= 15
    /\ pollCount >= 15 => ~pollInterval

\* C11: while Step 3 is mounted and shows the view with the 'Generate Final
\* Demo Video' button, the session status it holds is 'ready_for_processing'.
C11_GenerateOnlyWhenReady ==
    (s3Mounted /\ ShowsGenerate(s3Status)) => s3Status = Some("ready_for_processing")

\* C12: when the file selected in Step 2 has a MIME type that does not start
\* with 'video/' or is larger than 100*1024*1024 bytes, the handler ends
\* without requesting an upload URL or sending a PUT (no upload is started),
\* the suggestion is not marked as uploaded or uploading, and an error
\* message is recorded.
C12_InvalidFileRejected ==
    [][\A index \in 0..(MaxSuggestions - 1), file \in Files :
          (S2FileSelected(index, file) /\ (~file.video \/ file.size > 104857600)) =>
              /\ uPc' = "idle"
              /\ UNCHANGED <<uploadedVideos, uploading, pollInterval, pollIssued>>
              /\ uErrors'[index] \in {"Please select a video file",
                                      "File size must be less than 100MB"}
      ]_vars

\* C12 witness: a file of more than 100 MB was refused before any upload.
C12_Witness ==
    /\ uPc = "idle" /\ uploadedVideos = {} /\ uploading = {}
    /\ \E k \in 0..(MaxSuggestions - 1) : uErrors[k] = "File size must be less than 100MB"

\* C13: getSuggestions does not return normally without a session id.  When
\* the response, unwrapped from its Lambda body, has no session_id (or its
\* body is a string that is no JSON), the call throws 'Invalid response:
\* missing session_id' and the wizard is left alone; otherwise the returned
\* sessionId is the response's session_id and the returned suggestions are
\* the response's videos, or the empty list when it has none.
C13_SuggestionsNeedSessionId ==
    [][\A resp \in SuggestionsResponses :
          S1SuggestionsReturns(resp) =>
              IF resp.wrap = "bodyBadString" \/ resp.payload.session_id = None
              THEN /\ s1Error' = "Invalid response: missing session_id"
                   /\ UNCHANGED <<step, sessionId, suggestions, storedSessionId>>
              ELSE /\ sessionId' = Head(resp.payload.session_id)
                   /\ sessionId' \in SessionIds
                   /\ suggestions' = (IF resp.payload.videos = None THEN <<>>
                                      ELSE Head(resp.payload.videos))
                   /\ s1Error' = s1Error
      ]_vars

\* C13 witness: a response with a session id and no videos was accepted, and
\* the wizard holds that session with an empty suggestions list.
C13_Witness ==
    /\ resumePc = "none" /\ analysisResponse # None /\ s1Pc = "idle"
    /\ step = 2 /\ sessionId \in SessionIds /\ suggestions = <<>>


(***************************************************************************)
(* Properties of force-reset-everything.sh (specification SpecReset).      *)
(***************************************************************************)
\* C14 (as written): whenever the text typed at the prompt has been read and
\* is not exactly DELETE EVERYTHING, no AWS delete command has been issued,
\* no local file has been removed, and the script is at the test of $confirm
\* or has exited with status 0.
C14_TypedTextMustBeExact ==
    (rPc # "prompt" /\ rLine # DeleteEverything) =>
        /\ awsDeleted = {} /\ localRemoved = {}
        /\ rPc \in {"check", "exited"}
        /\ rPc = "exited" => rExit = Some(0)

\* C14 (amended): whenever the value `read` stored in $confirm (the typed
\* text without its leading and trailing white space and without its
\* backslash escapes) is not exactly DELETE EVERYTHING, no AWS delete command
\* has been issued, no local file has been removed, and the script is at the
\* test of $confirm or has exited with status 0.
C14_ConfirmMustBeExact ==
    (rPc # "prompt" /\ confirm # DeleteEverything) =>
        /\ awsDeleted = {} /\ localRemoved = {}
        /\ rPc \in {"check", "exited"}
        /\ rPc = "exited" => rExit = Some(0)
C14_Witness ==
    /\ rPc = "exited" /\ rExit = Some(0)
    /\ rLine = <<"DELETE", "EVERYTHING">> /\ confirm = rLine
    /\ awsDeleted = {} /\ localRemoved = {}


(***************************************************************************)
(* Properties of Step 2 with concurrent uploads (specification SpecStep2). *)
(***************************************************************************)
\* C15: while Step 2 is mounted, every suggestion whose upload has completed
\* successfully since the mount is in uploadedVideos.
C15_CompletedStaysUploaded ==
    step = 2 => completedUploads \subseteq uploadedVideos

====
